---- MODULE Spec2Model ----
(***************************************************************************)
(* The storage service of pkg/services/store/service.go: a facade over a   *)
(* tree of storage roots.  Upload and Delete act on the per-organization   *)
(* "resources" root; every backend interaction (Get, Upsert, Delete) is a  *)
(* separate step, so that calls of different tasks interleave there.       *)
(*                                                                         *)
(* Strings are sequences of tokens; a token stands for a run of            *)
(* characters ("resources", "/", "..", "a").  HasPrefix and TrimPrefix     *)
(* work on these sequences as the Go functions work on characters.         *)
(***************************************************************************)
EXTENDS Integers, Sequences, FiniteSets, TLC

\* ---------------------------------------------------------------- bounds
NumTasks == 2
NumOrgs == 2

\* ------------------------------------------------------- program constants
ErrUploadFeatureDisabled == "upload feature is disabled"
ErrUnsupportedStorage == "storage does not support upload operation"
ErrUploadInternalError == "upload internal error"
ErrValidationFailed == "request validation failed"
ErrFileAlreadyExists == "file exists"
\* the error Delete builds with fmt.Errorf when the root is missing
ErrDeleteNotEnabled == "upload feature is not enabled"
\* an error value produced by a backend (its text is the backend's own)
ErrBackend == "backend: sql: connection refused"
\* the error with which a backend may report that a path holds no file
ErrNotFound == "backend: file not found"
NoErr == "nil"
\* an error value produced by sanitizeUploadRequest
ErrSanitize == "sanitize: cannot normalize path"

RootPublicStatic == <<"public-static">>
RootResources == <<"resources">>
RootDevenv == <<"devenv">>
MAX_UPLOAD_SIZE == 3 * 1024 * 1024

GlobalOrgID == 0

\* ------------------------------------------------------------ input sets
Tasks == 1 .. NumTasks
SeqTasks == {1}
Orgs == 1 .. NumOrgs
OrgIds == Orgs \cup {GlobalOrgID}
\* a caller: a signed-in user of an organization, or no user at all (nil)
SignedInUser(o) == [present |-> TRUE, OrgId |-> o]
Nil == [present |-> FALSE, OrgId |-> GlobalOrgID]
OrgUsers == { SignedInUser(o) : o \in Orgs }
Users == OrgUsers \cup {Nil}
PayloadIds == Tasks
Sizes == {0, MAX_UPLOAD_SIZE, MAX_UPLOAD_SIZE + 1}
MimeTypes == {"image/png", "text/html"}
AllowedMimeTypes == {"image/png"}
\* payloads are told apart by an id; a stored file is its payload
NoFile == [id |-> 0, len |-> 0]
Payloads == [id : PayloadIds, len : Sizes]

PathA == <<"resources", "/", "a">>
PathTraversal == <<"resources", "/", "..", "/", "a">>
PathOtherRoot == <<"public-static", "/", "a">>
PathNoSlash == <<"resources", "a">>
PathOutside == <<"..", "/", "resources", "/", "a">>
Paths == {PathA, PathTraversal, PathOtherRoot, PathNoSlash, PathOutside}

\* ------------------------------------------------------- string functions
HasPrefix(s, prefix) ==
  /\ Len(s) >= Len(prefix)
  /\ SubSeq(s, 1, Len(prefix)) = prefix

TrimPrefix(s, prefix) ==
  IF HasPrefix(s, prefix) THEN SubSeq(s, Len(prefix) + 1, Len(s)) ELSE s

\* a ".." token that is a whole segment of the "/"-delimited path
HasTraversal(p) ==
  \E i \in 1 .. Len(p) :
    /\ p[i] = ".."
    /\ (i = 1 \/ p[i - 1] = "/")
    /\ (i = Len(p) \/ p[i + 1] = "/")

\* the files of one backend: a function from the paths that hold a file
NoFiles == << >>
FileAt(files, p) == IF p \in DOMAIN files THEN files[p] ELSE NoFile
WithFile(files, p, contents) ==
  [q \in DOMAIN files \cup {p} |-> IF q = p THEN contents ELSE files[q]]
WithoutFile(files, p) == [q \in DOMAIN files \ {p} |-> files[q]]

\* ------------------------------------------------------------------ roots
newDiskStorage(name) ==
  [name |-> name, kind |-> "disk", readOnly |-> FALSE, builtin |-> FALSE,
   orgId |-> GlobalOrgID]

newSQLStorage(name, orgId) ==
  [name |-> name, kind |-> "sql", readOnly |-> FALSE, builtin |-> FALSE,
   orgId |-> orgId]

setReadOnly(r, b) == [r EXCEPT !.readOnly = b]
setBuiltin(r, b) == [r EXCEPT !.builtin = b]

\* the errors of os.Stat: the path does not exist, or it cannot be reached
ErrNotExist == "stat: no such file or directory"
ErrPermission == "stat: permission denied"

\* what os.Stat can answer for the devenv path, given whether the directory
\* is on disk
StatOutcomes(exists) ==
  IF exists THEN {NoErr} ELSE {ErrNotExist, ErrPermission}

IsNotExist(err) == err = ErrNotExist

\* ProvideService: the global roots, from the configuration and the disk
GlobalRoots(c) ==
  <<setBuiltin(setReadOnly(newDiskStorage(RootPublicStatic), TRUE), TRUE)>>
  \o (IF c.addDevEnv /\ ~c.prod /\ ~IsNotExist(c.statErr)
        THEN <<setReadOnly(newDiskStorage(RootDevenv), FALSE)>>
        ELSE <<>>)

\* the factory with the feature flag not consulted
initializeOrgStorages_FlagIgnored(c, orgId) ==
  <<setBuiltin(newSQLStorage(RootResources, orgId), TRUE)>>

\* the factory binding every resources root to the first organization
initializeOrgStorages_SharedBackend(c, orgId) ==
  IF c.localUpload
    THEN <<setBuiltin(newSQLStorage(RootResources, 1), TRUE)>>
    ELSE <<>>

\* the per-organization root factory built by ProvideService
initializeOrgStorages(c, orgId) ==
  IF c.localUpload
    THEN <<setBuiltin(newSQLStorage(RootResources, orgId), TRUE)>>
    ELSE <<>>

\* every caller taken for the global organization
getOrgId_AlwaysGlobal(user) == GlobalOrgID

getOrgId(user) == IF ~user.present THEN GlobalOrgID ELSE user.OrgId

VARIABLES
  cfg,            \* feature toggles, settings and the disk probe's answer
  rootsByOrgId,   \* nestedTree.rootsByOrgId: org id -> its roots, once built
  factoryCalls,   \* how often initializeOrgStorages ran, per org id
  store,          \* the files behind each organization's resources root
  call            \* per task: the call it is executing, or idle

vars == <<cfg, rootsByOrgId, factoryCalls, store, call>>

\* ------------------------------------------------------------ nestedTree
NilRoot == [name |-> <<>>, kind |-> "none", readOnly |-> FALSE,
            builtin |-> FALSE, orgId |-> GlobalOrgID]

\* newStandardStorageService: the global roots are registered under the
\* global org id, nothing else is built yet
newStandardStorageService(globalRoots) == (GlobalOrgID :> globalRoots)

\* the guard left out: the factory runs on every access
assureOrgIsInitialized_NoMemo(roots, calls, orgId) ==
  [roots |-> (orgId :> initializeOrgStorages(cfg, orgId)) @@ roots,
   calls |-> [calls EXCEPT ![orgId] = @ + 1]]

\* build the roots of an org on its first access, under the tree's guard:
\* the factory runs only when the org has no entry yet
assureOrgIsInitialized(roots, calls, orgId) ==
  IF orgId \in DOMAIN roots
    THEN [roots |-> roots, calls |-> calls]
    ELSE [roots |-> roots @@ (orgId :> initializeOrgStorages(cfg, orgId)),
          calls |-> [calls EXCEPT ![orgId] = @ + 1]]

\* the roots an org sees: the global ones, then its own
VisibleRoots(roots, orgId) ==
  roots[GlobalOrgID] \o (IF orgId = GlobalOrgID THEN <<>> ELSE roots[orgId])

getRoot(roots, orgId, name) ==
  LET vis == VisibleRoots(roots, orgId)
      hit == { i \in 1 .. Len(vis) : vis[i].name = name }
  IN IF hit = {} THEN NilRoot
     ELSE vis[CHOOSE i \in hit : \A j \in hit : i <= j]

\* a virtual path names its root before the first "/"
SlashAt(p) ==
  LET at == { i \in 1 .. Len(p) : p[i] = "/" }
  IN IF at = {} THEN Len(p) + 1 ELSE CHOOSE i \in at : \A j \in at : i <= j

RootName(p) == SubSeq(p, 1, SlashAt(p) - 1)

\* ------------------------------------------------------- upload pipeline
Fail(reason) == [ok |-> FALSE, reason |-> reason]
Success == [ok |-> TRUE, reason |-> ""]
NotRun == [ok |-> FALSE, reason |-> "validation not run"]

validateUploadRequest(req, storagePath) ==
  IF req.Contents.len = 0 THEN Fail("empty payload")
  ELSE IF req.Contents.len > MAX_UPLOAD_SIZE THEN Fail("payload too large")
  ELSE IF HasTraversal(storagePath) THEN Fail("path traversal")
  ELSE IF req.MimeType \notin AllowedMimeTypes THEN Fail("mime type not allowed")
  ELSE Success

NoCmd == [Path |-> <<>>, Contents |-> NoFile, MimeType |-> ""]

sanitizeUploadRequest(req, storagePath) ==
  [Path |-> storagePath, Contents |-> req.Contents, MimeType |-> req.MimeType]

\* ------------------------------------------------------------- the calls
NoReq == [Path |-> <<>>, Contents |-> NoFile, MimeType |-> "",
          OverwriteExistingFile |-> FALSE]

UploadRequests ==
  [Path : Paths, Contents : Payloads, MimeType : MimeTypes,
   OverwriteExistingFile : BOOLEAN]

PathRequest(p) == [NoReq EXCEPT !.Path = p]

\* sanitizeUploadRequest has not been called
NotSanitized == "sanitize not run"

Idle ==
  [pc |-> "idle", op |-> "none", user |-> Nil, req |-> NoReq,
   upload |-> NilRoot, storagePath |-> <<>>, cmd |-> NoCmd,
   valid |-> NotRun, result |-> NoErr, before |-> NoFile,
   san |-> NotSanitized, steps |-> <<>>, ops |-> <<>>, log |-> <<>>,
   lookups |-> <<>>]

\* one call of a backend: which root's backend, the path, and its answer
BackendOp(name, root, path, found, err) ==
  [op |-> name, root |-> root.name, orgId |-> root.orgId, path |-> path,
   found |-> found, err |-> err]

LogLine(level, msg, detail) == [level |-> level, msg |-> msg, detail |-> detail]


\* the wrong sentinel returned for a failed validation
ValidationFailure_Internal(v) == ErrUploadInternalError

\* the validation's reason returned to the caller
ValidationFailure_Reason(v) == v.reason

\* the error returned for a request that failed validation (the reason is
\* logged, not returned)
ValidationFailure(v) == ErrValidationFailed

\* a failed sanitization reported as a failed validation
SanitizeFailure_Validation(err) == ErrValidationFailed

\* the error returned when sanitizeUploadRequest fails (its error is logged)
SanitizeFailure(err) == ErrUploadInternalError

\* the validation's verdict ignored
ValidationPassed_Always(v) == TRUE

\* whether the request goes on after validation
ValidationPassed(v) == v.ok

\* the "/" after the root name left out of the prefix
PrefixOK_NoSlash(path) == HasPrefix(path, RootResources)

\* the request path must name the upload root, followed by "/"
PrefixOK(path) == HasPrefix(path, RootResources \o <<"/">>)

\* Upload up to the first backend call: resolve the root, check the prefix,
\* validate, sanitize.  sanErr is sanitizeUploadRequest's error, if any.
UploadPreflight(upload, req, sanErr) ==
  LET storagePath == TrimPrefix(req.Path, RootResources)
      v == validateUploadRequest(req, storagePath)
      base == [err |-> NoErr, steps |-> <<"resolve">>, storagePath |-> <<>>,
               valid |-> NotRun, san |-> NotSanitized, cmd |-> NoCmd,
               log |-> <<>>]
  IN IF upload = NilRoot
       THEN [base EXCEPT !.err = ErrUploadFeatureDisabled]
     ELSE IF ~PrefixOK(req.Path)
       THEN [base EXCEPT !.err = ErrUnsupportedStorage,
                         !.steps = <<"resolve", "prefix">>]
     ELSE IF ~ValidationPassed(v)
       THEN [base EXCEPT !.err = ValidationFailure(v),
                         !.steps = <<"resolve", "prefix", "validate">>,
                         !.storagePath = storagePath, !.valid = v,
                         !.log = <<LogLine("warn", "file upload validation failed",
                                           v.reason)>>]
     ELSE IF sanErr # NoErr
       THEN [base EXCEPT !.err = SanitizeFailure(sanErr),
                         !.steps = <<"resolve", "prefix", "validate", "sanitize">>,
                         !.storagePath = storagePath, !.valid = v,
                         !.san = sanErr,
                         !.log = <<LogLine("error",
                                     "failed while sanitizing the upload request",
                                     sanErr)>>]
     ELSE [base EXCEPT !.steps = <<"resolve", "prefix", "validate", "sanitize">>,
                       !.storagePath = storagePath, !.valid = v,
                       !.san = NoErr,
                       !.cmd = sanitizeUploadRequest(req, storagePath),
                       !.log = <<LogLine("info", "uploading a file", "")>>]

\* the lookup's error ignored
ExistenceCheck_IgnoresError(file, err) ==
  IF file # NoFile THEN ErrFileAlreadyExists ELSE NoErr

\* the found file ignored
ExistenceCheck_IgnoresFile(file, err) ==
  IF err # NoErr THEN ErrUploadInternalError ELSE NoErr

\* what Upload makes of the existence check's answer
ExistenceCheck(file, err) ==
  IF err # NoErr THEN ErrUploadInternalError
  ELSE IF file # NoFile THEN ErrFileAlreadyExists
  ELSE NoErr

\* what Upload makes of the Upsert's answer
CommitResult(err) == IF err # NoErr THEN ErrUploadInternalError ELSE NoErr

\* what Delete makes of the backend Delete's answer
DeleteResult(err) == IF err # NoErr THEN err ELSE NoErr

\* ---------------------------------------------------------------- actions
\* the devenv root needs all three: the setting on, not production, the
\* directory on disk.  Short(c) is the conditions a deployment lacks.
Short(c) ==
  { x \in {"addDevEnv", "prod", "devenvExists"} : c[x] = (x = "prod") }

\* the deployments: the development one with its devenv directory and the
\* three that are one condition short of it, the upload flag on or off
Deployments ==
  { c \in [localUpload : BOOLEAN, addDevEnv : BOOLEAN, prod : BOOLEAN,
           devenvExists : BOOLEAN, statErr : {NoErr, ErrNotExist, ErrPermission}] :
      /\ Cardinality(Short(c)) <= 1
      /\ c.statErr \in StatOutcomes(c.devenvExists) }

Init ==
  /\ cfg \in Deployments
  /\ rootsByOrgId = newStandardStorageService(GlobalRoots(cfg))
  /\ factoryCalls = [o \in OrgIds |-> 0]
  /\ store = [o \in Orgs |-> NoFiles]
  /\ call = [t \in Tasks |-> Idle]

\* the file stored for the caller's org at the place an upload to path goes
StoredAt(user, path) ==
  IF user.present THEN FileAt(store[user.OrgId], TrimPrefix(path, RootResources))
  ELSE NoFile

\* Upload, lines 155-178: up to the point where the backend is first needed
Upload(t, user, req) ==
  /\ call[t].pc = "idle"
  /\ \E sanErr \in {NoErr, ErrSanitize}, orgId \in {getOrgId(user)} :
     \E tree \in {assureOrgIsInitialized(rootsByOrgId, factoryCalls, orgId)} :
     \E upload \in {getRoot(tree.roots, orgId, RootResources)} :
     \E pre \in {UploadPreflight(upload, req, sanErr)} :
          /\ rootsByOrgId' = tree.roots
          /\ factoryCalls' = tree.calls
          /\ call' = [call EXCEPT ![t] =
               [Idle EXCEPT
                  !.pc = IF pre.err # NoErr THEN "done"
                         ELSE IF ~req.OverwriteExistingFile THEN "exists"
                         ELSE "commit",
                  !.op = "Upload", !.user = user, !.req = req,
                  !.upload = upload, !.storagePath = pre.storagePath,
                  !.cmd = pre.cmd, !.valid = pre.valid, !.san = pre.san,
                  !.result = pre.err,
                  !.before = StoredAt(user, req.Path),
                  !.steps = pre.steps, !.log = pre.log,
                  !.lookups = <<orgId>>]]
  /\ UNCHANGED <<cfg, store>>

\* the answers a backend can give to a Get: the file or nothing, a failure,
\* or - for a path that holds no file - a not-found error
GetErrors(files, p) ==
  {NoErr, ErrBackend} \cup (IF FileAt(files, p) = NoFile THEN {ErrNotFound} ELSE {})

\* the existence check made again after a failed lookup
AfterGet_Retry(res) ==
  IF res = NoErr THEN "commit"
  ELSE IF res = ErrUploadInternalError THEN "exists"
  ELSE "done"

\* where Upload goes after the existence check: on to the commit, or back to
\* the caller with the error (the returns at lines 184 and 188)
AfterGet(res) == IF res = NoErr THEN "commit" ELSE "done"

\* the existence check made at the request's path, root name included
GetPath_Untrimmed(c) == c.req.Path

\* the path of the existence check: storagePath, the request's path without
\* the root's name
GetPath(c) == c.storagePath

\* Upload, lines 180-190: the existence check
UploadGet(t) ==
  LET c == call[t] IN
  /\ c.pc = "exists"
  /\ \E path \in {GetPath(c)} :
     \E err \in GetErrors(store[c.upload.orgId], path) :
       LET file == IF err = NoErr THEN FileAt(store[c.upload.orgId], path)
                   ELSE NoFile
           res == ExistenceCheck(file, err)
       IN call' = [call EXCEPT ![t] =
            [c EXCEPT
               !.pc = AfterGet(res),
               !.result = res,
               !.steps = Append(@, "exists"),
               !.ops = Append(@, BackendOp("Get", c.upload, path,
                                           file # NoFile, err)),
               !.log = IF err # NoErr
                         THEN Append(@, LogLine("error",
                                "failed while checking file existence", err))
                         ELSE @]]
  /\ UNCHANGED <<cfg, rootsByOrgId, factoryCalls, store>>

\* a commit that creates only if absent: the check repeated with the write
UploadUpsert_CreateIfAbsent(t) ==
  LET c == call[t]
      taken == /\ ~c.req.OverwriteExistingFile
               /\ FileAt(store[c.upload.orgId], c.cmd.Path) # NoFile
  IN
  /\ c.pc = "commit"
  /\ \E err \in {NoErr, ErrBackend} :
       /\ store' = IF err = NoErr /\ ~taken
                     THEN [store EXCEPT ![c.upload.orgId] =
                             WithFile(@, c.cmd.Path, c.cmd.Contents)]
                     ELSE store
       /\ call' = [call EXCEPT ![t] =
            [c EXCEPT
               !.pc = "done",
               !.result = IF err # NoErr THEN ErrUploadInternalError
                          ELSE IF taken THEN ErrFileAlreadyExists
                          ELSE NoErr,
               !.steps = Append(@, "commit"),
               !.ops = Append(@, BackendOp("Upsert", c.upload, c.cmd.Path,
                                           FALSE, err))]]
  /\ UNCHANGED <<cfg, rootsByOrgId, factoryCalls>>

\* Upload, lines 192-197: the commit
UploadUpsert(t) ==
  LET c == call[t] IN
  /\ c.pc = "commit"
  /\ \E err \in {NoErr, ErrBackend} :
       /\ store' = IF err = NoErr
                     THEN [store EXCEPT ![c.upload.orgId] =
                             WithFile(@, c.cmd.Path, c.cmd.Contents)]
                     ELSE store
       /\ call' = [call EXCEPT ![t] =
            [c EXCEPT
               !.pc = "done",
               !.result = CommitResult(err),
               !.steps = Append(@, "commit"),
               !.ops = Append(@, BackendOp("Upsert", c.upload, c.cmd.Path,
                                           FALSE, err)),
               !.log = IF err # NoErr
                         THEN Append(@, LogLine("error",
                                "failed while uploading the file", err))
                         ELSE @]]
  /\ UNCHANGED <<cfg, rootsByOrgId, factoryCalls>>

\* Delete, lines 200-204: resolve the upload root
Delete(t, user, path) ==
  /\ call[t].pc = "idle"
  /\ \E orgId \in {getOrgId(user)} :
     \E tree \in {assureOrgIsInitialized(rootsByOrgId, factoryCalls, orgId)} :
     \E upload \in {getRoot(tree.roots, orgId, RootResources)} :
        /\ rootsByOrgId' = tree.roots
        /\ factoryCalls' = tree.calls
        /\ call' = [call EXCEPT ![t] =
             [Idle EXCEPT
                !.pc = IF upload = NilRoot THEN "done" ELSE "delete",
                !.op = "Delete", !.user = user, !.req = PathRequest(path),
                !.upload = upload,
                !.result = IF upload = NilRoot THEN ErrDeleteNotEnabled
                           ELSE NoErr,
                !.before = StoredAt(user, path),
                !.steps = <<"resolve">>, !.lookups = <<orgId>>]]
  /\ UNCHANGED <<cfg, store>>

\* Delete, lines 205-210: the backend is asked to delete the path as given
DeleteBackend(t) ==
  LET c == call[t] IN
  /\ c.pc = "delete"
  /\ \E err \in {NoErr, ErrBackend} :
       /\ store' = IF err = NoErr
                     THEN [store EXCEPT ![c.upload.orgId] =
                             WithoutFile(@, c.req.Path)]
                     ELSE store
       /\ call' = [call EXCEPT ![t] =
            [c EXCEPT
               !.pc = "done",
               !.result = DeleteResult(err),
               !.steps = Append(@, "delete"),
               !.ops = Append(@, BackendOp("Delete", c.upload, c.req.Path,
                                           FALSE, err))]]
  /\ UNCHANGED <<cfg, rootsByOrgId, factoryCalls>>

\* List, lines 132-136: the tree lists the folder for the caller's org
List(t, user, path) ==
  /\ call[t].pc = "idle"
  /\ \E orgId \in {getOrgId(user)} :
     \E tree \in {assureOrgIsInitialized(rootsByOrgId, factoryCalls, orgId)} :
        /\ rootsByOrgId' = tree.roots
        /\ factoryCalls' = tree.calls
        /\ call' = [call EXCEPT ![t] =
             [Idle EXCEPT !.pc = "done", !.op = "List", !.user = user,
                          !.req = PathRequest(path),
                          !.upload = getRoot(tree.roots, orgId,
                                            RootName(path)),
                          !.steps = <<"resolve">>, !.lookups = <<orgId>>]]
  /\ UNCHANGED <<cfg, store>>

\* Read, lines 138-141: the tree gets the file for the caller's org
Read(t, user, path) ==
  /\ call[t].pc = "idle"
  /\ \E orgId \in {getOrgId(user)} :
     \E tree \in {assureOrgIsInitialized(rootsByOrgId, factoryCalls, orgId)} :
        /\ rootsByOrgId' = tree.roots
        /\ factoryCalls' = tree.calls
        /\ call' = [call EXCEPT ![t] =
             [Idle EXCEPT !.pc = "done", !.op = "Read", !.user = user,
                          !.req = PathRequest(path),
                          !.upload = getRoot(tree.roots, orgId,
                                            RootName(path)),
                          !.steps = <<"resolve">>, !.lookups = <<orgId>>]]
  /\ UNCHANGED <<cfg, store>>

\* the call has returned to its caller; the task is free for the next one
Return(t) ==
  /\ call[t].pc = "done"
  /\ call' = [call EXCEPT ![t] = Idle]
  /\ UNCHANGED <<cfg, rootsByOrgId, factoryCalls, store>>

\* one caller at a time, every input
Next ==
  \E t \in SeqTasks :
    \/ \E user \in Users, req \in UploadRequests : Upload(t, user, req)
    \/ UploadGet(t)
    \/ UploadUpsert(t)
    \/ \E user \in Users, path \in Paths : Delete(t, user, path)
    \/ DeleteBackend(t)
    \/ \E user \in Users, path \in Paths : List(t, user, path)
    \/ \E user \in Users, path \in Paths : Read(t, user, path)
    \/ Return(t)

Spec == Init /\ [][Next]_vars

\* the requests of the concurrent callers: task t uploads payload t
RaceRequests(t) ==
  { [Path |-> PathA, Contents |-> [id |-> t, len |-> MAX_UPLOAD_SIZE],
     MimeType |-> "image/png", OverwriteExistingFile |-> ow] :
    ow \in BOOLEAN }

\* the concurrent callers run against the production deployment
InitConc ==
  /\ Init
  /\ cfg.prod

\* the concurrent callers: no user, or a user of the first organization
RaceUsers == {Nil, SignedInUser(CHOOSE o \in Orgs : \A q \in Orgs : o <= q)}

\* every task is a caller of its own; calls interleave at the backend calls
NextConc ==
  \E t \in Tasks :
    \/ \E user \in RaceUsers, req \in RaceRequests(t) : Upload(t, user, req)
    \/ UploadGet(t)
    \/ UploadUpsert(t)
    \/ \E user \in RaceUsers : Delete(t, user, PathA)
    \/ DeleteBackend(t)
    \/ \E user \in RaceUsers : List(t, user, PathA)
    \/ \E user \in RaceUsers : Read(t, user, PathA)
    \/ Return(t)

SpecConc == InitConc /\ [][NextConc]_vars

\* ================================================================ claims
Done(t) == call[t].pc = "done"
UploadOf(t) == call[t].op = "Upload"
DeleteOf(t) == call[t].op = "Delete"
Mounted(t) == call[t].upload.name = <<"resources">>
TargetsResources(p) == Len(p) >= 2 /\ p[1] = "resources" /\ p[2] = "/"
RootRelativeOf(p) == SubSeq(p, 2, Len(p))
Oversize(t) == call[t].req.Contents.len > 3 * 1024 * 1024
NoOp(t, name) == \A i \in 1 .. Len(call[t].ops) : call[t].ops[i].op # name
\* the file now stored where an upload to the call's path goes
StoredNow(t) == StoredAt(call[t].user, call[t].req.Path)

\* C1 as stated: every Upload with a payload above the maximum returns the
\* validation-failed error and invokes no Upsert.
C1_OversizeAlwaysValidationFailed ==
  \A t \in Tasks :
    (Done(t) /\ UploadOf(t) /\ Oversize(t))
      => (call[t].result = "request validation failed" /\ NoOp(t, "Upsert"))

\* C1 amended: an Upload with a payload above the maximum never reaches the
\* existence check or the commit and invokes no Upsert; when the resources
\* root is mounted for the caller's org and the path starts with
\* "resources/", it returns the validation-failed error.
C1_OversizeRejected ==
  \A t \in Tasks :
    (UploadOf(t) /\ Oversize(t))
      => /\ NoOp(t, "Upsert")
         /\ call[t].pc \notin {"exists", "commit"}
         /\ (Done(t) /\ Mounted(t) /\ TargetsResources(call[t].req.Path))
              => call[t].result = "request validation failed"

C1_Witness ==
  \E t \in Tasks :
    /\ Done(t) /\ UploadOf(t) /\ Oversize(t) /\ Mounted(t)
    /\ call[t].req.Path = <<"resources", "/", "a">>
    /\ call[t].req.MimeType = "image/png"
    /\ call[t].result = "request validation failed"

ValidationOK(t) == call[t].valid.ok
ValidationFailedIn(t) ==
  ~call[t].valid.ok /\ call[t].valid.reason # "validation not run"
Answered(t, name) ==
  \E i \in 1 .. Len(call[t].ops) :
    call[t].ops[i].op = name /\ call[t].ops[i].err = "nil"

\* C2 as stated: with a file stored at the target, an Upload without
\* overwrite returns the conflict error and leaves the content unchanged; an
\* Upload with overwrite that passes validation replaces the content.
C2_ConflictOrReplace ==
  \A t \in Tasks :
    (Done(t) /\ UploadOf(t) /\ call[t].before # NoFile)
      => /\ ~call[t].req.OverwriteExistingFile
              => (call[t].result = "file exists" /\ StoredNow(t) = call[t].before)
         /\ (call[t].req.OverwriteExistingFile /\ ValidationOK(t))
              => StoredNow(t) = call[t].req.Contents

\* C2 amended: with a file stored at the target, an Upload without overwrite
\* leaves the content unchanged and invokes no Upsert, and returns the
\* conflict error when the request passes validation and sanitization and the
\* existence Get returns no error; an Upload with overwrite that passes
\* validation and sanitization and whose Upsert returns no error replaces the
\* content with the new payload, and otherwise leaves it unchanged.
C2_ExistingFile ==
  \A t \in Tasks :
    (Done(t) /\ UploadOf(t) /\ call[t].before # NoFile)
      => /\ ~call[t].req.OverwriteExistingFile
              => /\ StoredNow(t) = call[t].before
                 /\ NoOp(t, "Upsert")
                 /\ (ValidationOK(t) /\ Answered(t, "Get"))
                      => call[t].result = "file exists"
         /\ call[t].req.OverwriteExistingFile
              => /\ (ValidationOK(t) /\ Answered(t, "Upsert"))
                      => (StoredNow(t) = call[t].req.Contents
                          /\ call[t].result = "nil")
                 /\ ~Answered(t, "Upsert") => StoredNow(t) = call[t].before

C2_Witness ==
  \E t \in Tasks :
    /\ Done(t) /\ UploadOf(t) /\ call[t].before # NoFile
    /\ ~call[t].req.OverwriteExistingFile
    /\ call[t].req.Contents # call[t].before
    /\ call[t].result = "file exists"
    /\ StoredNow(t) = call[t].before

\* C3 as stated: with the upload flag disabled, Upload and Delete against a
\* resources/... path both return the feature-disabled error and invoke no
\* backend operation.
C3_FeatureDisabled ==
  \A t \in Tasks :
    (Done(t) /\ (UploadOf(t) \/ DeleteOf(t)) /\ ~cfg.localUpload
       /\ TargetsResources(call[t].req.Path))
      => (call[t].result = "upload feature is disabled" /\ call[t].ops = <<>>)

\* C4 as stated: every error Upload or Delete returns is one of the fixed
\* public errors, and a failed backend call surfaces as the internal error.
C4_OnlyPublicErrors ==
  \A t \in Tasks :
    (Done(t) /\ (UploadOf(t) \/ DeleteOf(t)))
      => /\ call[t].result \in
              { "nil", "upload feature is disabled",
                "storage does not support upload operation",
                "upload internal error", "request validation failed",
                "file exists" }
         /\ (\E i \in 1 .. Len(call[t].ops) : call[t].ops[i].err # "nil")
              => call[t].result = "upload internal error"

\* C5: the commit of an Upload that has passed the existence check does not
\* look again: when its Upsert returns no error the call succeeds and its
\* payload becomes the stored content, whatever another call stored there in
\* between.  Two concurrent uploads to a new path, both without overwrite,
\* thus both succeed and the later Upsert's payload stays.
C5_CommitAfterCheckOverwrites ==
  [][\A t \in Tasks :
       (/\ call[t].pc = "commit"
        /\ call'[t].pc = "done"
        /\ call'[t].ops[Len(call'[t].ops)].err = "nil")
         => /\ call'[t].result = "nil"
            /\ FileAt(store'[call[t].upload.orgId], call[t].cmd.Path)
                 = call[t].req.Contents]_vars

PassedCheck(t) ==
  \E i \in 1 .. Len(call[t].ops) :
    /\ call[t].ops[i].op = "Get"
    /\ ~call[t].ops[i].found
    /\ call[t].ops[i].err = "nil"

C5_Witness ==
  \E t1, t2 \in Tasks :
    /\ t1 # t2
    /\ Done(t1) /\ Done(t2) /\ UploadOf(t1) /\ UploadOf(t2)
    /\ call[t1].user = call[t2].user
    /\ call[t1].req.Path = call[t2].req.Path
    /\ ~call[t1].req.OverwriteExistingFile
    /\ ~call[t2].req.OverwriteExistingFile
    /\ PassedCheck(t1) /\ PassedCheck(t2)
    /\ Answered(t1, "Upsert") /\ Answered(t2, "Upsert")
    /\ call[t1].result = "nil" /\ call[t2].result = "nil"
    /\ StoredNow(t1) = call[t2].req.Contents
    /\ call[t1].req.Contents # call[t2].req.Contents

\* C6 as stated: every Upload whose path has a traversal segment returns the
\* validation-failed error and invokes neither Get nor Upsert.
C6_TraversalAlwaysValidationFailed ==
  \A t \in Tasks :
    (Done(t) /\ UploadOf(t) /\ HasTraversal(call[t].req.Path))
      => (call[t].result = "request validation failed" /\ call[t].ops = <<>>)

\* C6 amended: an Upload whose path has a traversal segment invokes neither
\* Get nor Upsert; when the resources root is mounted for the caller's org
\* and the path starts with "resources/", it returns the validation-failed
\* error.
C6_TraversalRejected ==
  \A t \in Tasks :
    (UploadOf(t) /\ HasTraversal(call[t].req.Path))
      => /\ call[t].ops = <<>>
         /\ call[t].pc \notin {"exists", "commit"}
         /\ (Done(t) /\ Mounted(t) /\ TargetsResources(call[t].req.Path))
              => call[t].result = "request validation failed"

C6_Witness ==
  \E t \in Tasks :
    /\ Done(t) /\ UploadOf(t) /\ Mounted(t)
    /\ call[t].req.Path = <<"resources", "/", "..", "/", "a">>
    /\ call[t].valid.reason = "path traversal"
    /\ call[t].result = "request validation failed"

\* C7: an Upload that fails validation returns the one generic
\* validation-failed error whatever the reason; the reason is in the log.
C7_GenericValidationError ==
  \A t \in Tasks :
    (Done(t) /\ UploadOf(t) /\ ValidationFailedIn(t))
      => /\ call[t].result = "request validation failed"
         /\ call[t].result # call[t].valid.reason
         /\ \E i \in 1 .. Len(call[t].log) :
              call[t].log[i].detail = call[t].valid.reason

C7_Witness ==
  \E t \in Tasks :
    /\ Done(t) /\ UploadOf(t)
    /\ call[t].valid.reason = "mime type not allowed"
    /\ call[t].result = "request validation failed"

\* C8: with the resources root mounted, an Upload whose path does not start
\* with "resources/" returns the unsupported-storage error without running
\* validation, Get or Upsert; every backend call of an Upload goes to the
\* resources root.
C8_OutsideUploadRoot ==
  \A t \in Tasks :
    /\ (UploadOf(t) /\ Mounted(t) /\ ~TargetsResources(call[t].req.Path))
         => /\ Done(t)
            /\ call[t].result = "storage does not support upload operation"
            /\ \A i \in 1 .. Len(call[t].steps) : call[t].steps[i] # "validate"
            /\ call[t].valid = NotRun
            /\ call[t].ops = <<>>
    /\ UploadOf(t)
         => \A i \in 1 .. Len(call[t].ops) :
              call[t].ops[i].root = <<"resources">>

C8_Witness ==
  \E t \in Tasks :
    /\ Done(t) /\ UploadOf(t) /\ Mounted(t)
    /\ call[t].req.Path = <<"resources", "a">>
    /\ call[t].result = "storage does not support upload operation"

\* C9 as stated: a Delete of a path under resources/ to which an Upload has
\* written, when it returns no error, asked the backend for the root-relative
\* path the Upload wrote, and the file is no longer stored.
C9_DeleteRemovesUploaded ==
  \A t \in Tasks :
    (Done(t) /\ DeleteOf(t) /\ call[t].result = "nil"
       /\ TargetsResources(call[t].req.Path) /\ call[t].before # NoFile)
      => /\ StoredNow(t) = NoFile
         /\ call[t].ops[Len(call[t].ops)].path = RootRelativeOf(call[t].req.Path)

\* C10: the root factory runs at most once per organization id, however
\* many calls access the organization's roots, and never for the global one.
C10_FactoryAtMostOnce ==
  \A o \in OrgIds :
    /\ factoryCalls[o] <= 1
    /\ factoryCalls[o] = 1 <=> (o # 0 /\ o \in DOMAIN rootsByOrgId)

C10_Witness ==
  \E t1, t2 \in Tasks :
    /\ t1 # t2
    /\ call[t1].pc # "idle" /\ call[t2].pc # "idle"
    /\ call[t1].user.present
    /\ call[t1].user = call[t2].user
    /\ call[t1].op # call[t2].op
    /\ factoryCalls[call[t1].user.OrgId] = 1

\* C11: every call of List, Read, Upload and Delete looks its roots up under
\* the caller's OrgId when there is a caller and under the global org id
\* when there is none, and under no other org id.
C11_OrgResolution ==
  \A t \in Tasks :
    call[t].pc # "idle"
      => /\ call[t].lookups # <<>>
         /\ \A i \in 1 .. Len(call[t].lookups) :
              call[t].lookups[i] =
                (IF call[t].user.present THEN call[t].user.OrgId ELSE 0)
         /\ \A i \in 1 .. Len(call[t].lookups) :
              call[t].lookups[i] \in DOMAIN rootsByOrgId

C11_Witness ==
  \E t \in Tasks :
    /\ Done(t) /\ UploadOf(t)
    /\ call[t].user.present /\ call[t].user.OrgId = 2
    /\ call[t].lookups = <<2>>
    /\ Mounted(t) /\ call[t].upload.orgId = 2

\* the steps of an Upload, in order; the existence check is left out when
\* the request asks to overwrite
PipelineOf(t) ==
  IF call[t].req.OverwriteExistingFile
    THEN <<"resolve", "prefix", "validate", "sanitize", "commit">>
    ELSE <<"resolve", "prefix", "validate", "sanitize", "exists", "commit">>

IsPrefixOf(s, full) == Len(s) <= Len(full) /\ s = SubSeq(full, 1, Len(s))

\* C12: the steps an Upload has taken are always an initial part of resolve,
\* prefix, validate, sanitize, existence check, commit, each at most once;
\* the call commits (and invokes Upsert) only when validation returned ok,
\* sanitization returned no error, and the request asks to overwrite or the
\* Get returned no file and no error.
C12_PipelineOrder ==
  \A t \in Tasks :
    UploadOf(t)
      => /\ call[t].steps # <<>>
         /\ IsPrefixOf(call[t].steps, PipelineOf(t))
         /\ (call[t].pc = "commit" \/ ~NoOp(t, "Upsert"))
              => /\ call[t].valid.ok
                 /\ call[t].san = "nil"
                 /\ call[t].req.OverwriteExistingFile \/ PassedCheck(t)

C12_Witness ==
  \E t \in Tasks :
    /\ Done(t) /\ UploadOf(t)
    /\ ~call[t].req.OverwriteExistingFile
    /\ call[t].steps =
         <<"resolve", "prefix", "validate", "sanitize", "exists", "commit">>
    /\ Answered(t, "Upsert")
    /\ call[t].result = "nil"

GetAnswer(t) ==
  LET at == { i \in 1 .. Len(call[t].ops) : call[t].ops[i].op = "Get" }
  IN call[t].ops[CHOOSE i \in at : TRUE]

\* C13 as stated: in an Upload without overwrite, a Get that reports
\* not-found - with no file and no error, or with a not-found error - lets
\* the call go on to the commit; any other lookup error ends the call with
\* the internal error and without an Upsert.
C13_NotFoundProceeds ==
  \A t \in Tasks :
    (UploadOf(t) /\ ~call[t].req.OverwriteExistingFile /\ ~NoOp(t, "Get"))
      => /\ (~GetAnswer(t).found
               /\ GetAnswer(t).err \in {"nil", "backend: file not found"})
              => (call[t].pc = "commit" \/ ~NoOp(t, "Upsert"))
         /\ GetAnswer(t).err \notin {"nil", "backend: file not found"}
              => /\ Done(t)
                 /\ call[t].result = "upload internal error"
                 /\ NoOp(t, "Upsert")

UpsertOf(t) ==
  LET at == { i \in 1 .. Len(call[t].ops) : call[t].ops[i].op = "Upsert" }
  IN call[t].ops[CHOOSE i \in at : TRUE]

\* C14: the existence check of an Upload asks the upload root's backend for
\* the path the UpsertCommand carries - the request's path without the
\* root's name - which is the path the Upsert then writes; so the check
\* finds a file exactly when one is stored where the commit would write.
C14_CheckAtCommitPath ==
  \A t \in Tasks :
    (UploadOf(t) /\ ~NoOp(t, "Get"))
      => /\ GetAnswer(t).path = call[t].cmd.Path
         /\ <<"resources">> \o GetAnswer(t).path = call[t].req.Path
         /\ GetAnswer(t).root = <<"resources">>
         /\ GetAnswer(t).err = "nil"
              => (GetAnswer(t).found <=> call[t].before # NoFile)
         /\ ~NoOp(t, "Upsert")
              => /\ UpsertOf(t).path = GetAnswer(t).path
                 /\ UpsertOf(t).orgId = GetAnswer(t).orgId
                 /\ UpsertOf(t).root = GetAnswer(t).root
                 /\ call[t].before = NoFile

C14_Witness ==
  \E t \in Tasks :
    /\ UploadOf(t) /\ Done(t)
    /\ ~NoOp(t, "Get")
    /\ GetAnswer(t).found
    /\ GetAnswer(t).path = <<"/", "a">>
    /\ call[t].before # NoFile
    /\ call[t].result = "file exists"

\* sanitizeUploadRequest was called and returned an error
SanitizeFailed(t) == call[t].san \notin {"nil", "sanitize not run"}

\* C15: an Upload whose sanitize step fails returns the internal error, not
\* the validation-failed one, and has called the backend neither for a Get
\* nor for an Upsert; the call ends at that step.
C15_SanitizeFailureInternal ==
  \A t \in Tasks :
    (UploadOf(t) /\ SanitizeFailed(t))
      => /\ Done(t)
         /\ call[t].result = "upload internal error"
         /\ call[t].result # "request validation failed"
         /\ call[t].ops = <<>>
         /\ call[t].steps = <<"resolve", "prefix", "validate", "sanitize">>
         /\ call[t].valid.ok

C15_Witness ==
  \E t \in Tasks :
    /\ UploadOf(t) /\ Done(t)
    /\ call[t].san = "sanitize: cannot normalize path"
    /\ call[t].result = "upload internal error"
    /\ call[t].ops = <<>>

CountOps(t, name) ==
  Cardinality({ i \in 1 .. Len(call[t].ops) : call[t].ops[i].op = name })

\* the call is between two of its steps: a backend call is to be made
InFlight(t) == call[t].pc \in {"exists", "commit", "delete"}

\* A call asks the backend at most once for a Get,
\* once for an Upsert and once for a Delete - an Upload never for a Delete, a
\* Delete never for a Get or an Upsert - and takes no step twice.  A call that
\* is not over has no result yet and its next backend call can be made; once
\* that returns the call moves on, so it ends, with the one result it reports.
AtMostOnce ==
  \A t \in Tasks :
    /\ CountOps(t, "Get") <= 1
    /\ CountOps(t, "Upsert") <= 1
    /\ CountOps(t, "Delete") <= 1
    /\ UploadOf(t) => CountOps(t, "Delete") = 0
    /\ DeleteOf(t) => CountOps(t, "Get") + CountOps(t, "Upsert") = 0
    /\ \A i, j \in 1 .. Len(call[t].steps) :
         call[t].steps[i] = call[t].steps[j] => i = j
    /\ InFlight(t)
         => /\ call[t].result = "nil"
            /\ ENABLED (UploadGet(t) \/ UploadUpsert(t) \/ DeleteBackend(t))
    /\ Done(t) => ~ENABLED (UploadGet(t) \/ UploadUpsert(t) \/ DeleteBackend(t))

\* each step of a call that is under way adds one step to those taken and
\* one backend call to those made, and a result, once there, is not replaced
OnlyForward ==
  \A t \in Tasks :
    /\ (InFlight(t) /\ call'[t] # call[t])
         => /\ Len(call'[t].steps) = Len(call[t].steps) + 1
            /\ Len(call'[t].ops) = Len(call[t].ops) + 1
            /\ call'[t].pc \in {"commit", "done"}
            /\ call'[t].pc = "commit" => call[t].pc = "exists"
    /\ (Done(t) /\ call'[t] # call[t]) => call'[t].pc = "idle"

\* C16: nothing is retried - no backend call of a call is made twice, no step
\* is taken again, every step of a call leads on towards its end, and the call
\* ends with one result.
C16_NoRetry == []AtMostOnce /\ [][OnlyForward]_vars

C16_Witness ==
  \E t \in Tasks :
    /\ UploadOf(t) /\ Done(t)
    /\ CountOps(t, "Get") = 1
    /\ GetAnswer(t).err = "backend: sql: connection refused"
    /\ call[t].result = "upload internal error"
    /\ CountOps(t, "Upsert") = 0

HasGlobalRoot(name) ==
  \E i \in 1 .. Len(rootsByOrgId[0]) : rootsByOrgId[0][i].name = name

\* C17 as stated: the global roots begin with the public-static root, read-only
\* and builtin; the devenv root, writable, is among them only when the
\* dev-environment setting is on, the environment is not production and the
\* development directory exists on disk.
C17_GlobalRoots ==
  /\ rootsByOrgId[0][1].name = <<"public-static">>
  /\ rootsByOrgId[0][1].readOnly
  /\ rootsByOrgId[0][1].builtin
  /\ \A i \in 1 .. Len(rootsByOrgId[0]) :
       rootsByOrgId[0][i].name = <<"devenv">> => ~rootsByOrgId[0][i].readOnly
  /\ HasGlobalRoot(<<"devenv">>)
       => (cfg.addDevEnv /\ ~cfg.prod /\ cfg.devenvExists)

\* the resources root as the factory is to build it for organization o
ResourcesRootOf(o) ==
  [name |-> <<"resources">>, kind |-> "sql", readOnly |-> FALSE,
   builtin |-> TRUE, orgId |-> o]

\* C18: the roots the factory has built for an organization are the resources
\* root alone - builtin, not read-only, bound to that organization - when the
\* local-upload flag is enabled, and none when it is not; so a call finds the
\* resources root only with the flag enabled, and then always does for a
\* caller of an organization.
C18_FactoryFollowsFlag ==
  /\ \A o \in DOMAIN rootsByOrgId \ {0} :
       /\ factoryCalls[o] >= 1
       /\ rootsByOrgId[o] =
            (IF cfg.localUpload THEN <<ResourcesRootOf(o)>> ELSE <<>>)
  /\ \A t \in Tasks :
       (UploadOf(t) \/ DeleteOf(t))
         => /\ Mounted(t) => cfg.localUpload
            /\ Mounted(t) <=> (cfg.localUpload /\ call[t].user.present)
            /\ Mounted(t) => call[t].upload = ResourcesRootOf(call[t].user.OrgId)

C18_Witness ==
  /\ cfg.localUpload
  /\ 2 \in DOMAIN rootsByOrgId
  /\ rootsByOrgId[2] = <<ResourcesRootOf(2)>>
  /\ \E t \in Tasks : UploadOf(t) /\ Mounted(t) /\ call[t].upload.orgId = 2

\* every backend call of a call is made on the resources backend of the
\* caller's organization
OwnBackendOnly ==
  \A t \in Tasks :
    \A i \in 1 .. Len(call[t].ops) :
      /\ call[t].user.present
      /\ call[t].ops[i].orgId = call[t].user.OrgId
      /\ call[t].ops[i].root = <<"resources">>
      /\ call[t].ops[i].op \in {"Get", "Upsert", "Delete"}

\* what is stored for an organization changes only in a step of a call made
\* by a caller of that organization
OwnContentOnly ==
  \A o \in Orgs :
    store'[o] # store[o]
      => \E t \in Tasks :
           /\ call'[t] # call[t]
           /\ call[t].user.present
           /\ call[t].user.OrgId = o
           /\ call[t].op \in {"Upload", "Delete"}

\* C19: a call made by a caller of an organization asks only that
\* organization's resources backend for a Get, an Upsert or a Delete, and
\* never changes what is stored for another organization.
C19_TenantIsolation == []OwnBackendOnly /\ [][OwnContentOnly]_vars

C19_Witness ==
  \E t \in Tasks :
    /\ UploadOf(t) /\ Done(t)
    /\ call[t].user.present /\ call[t].user.OrgId = 2
    /\ call[t].result = "nil"
    /\ ~NoOp(t, "Upsert")
    /\ UpsertOf(t).orgId = 2
    /\ store[1] # NoFiles
    /\ store[2] # NoFiles
    /\ store[1] # store[2]

====
